---- MODULE Spec2Model ----
(***************************************************************************)
(* A model of benchmark/benchmark.py: the SearchWorker and InsertWorker    *)
(* threads, the LatencyTracker, and the orchestrator run_benchmark.        *)
(*                                                                         *)
(* Time is the wall clock time.time() in seconds.  The clock advances in   *)
(* steps of PollInterval (the orchestrator's time.sleep(10)); between two  *)
(* clock steps any number of thread steps may happen.                      *)
(*                                                                         *)
(* Seven specifications:                                                   *)
(*   Spec           run_benchmark with its search-only workers             *)
(*   SpecFair       Spec with fairly scheduled worker threads              *)
(*   SpecInsert     InsertWorkers built over the ranges of the partition   *)
(*                  of run_benchmark (lines 397-433), then run as threads  *)
(*   SpecPartition  the construction of those InsertWorkers alone          *)
(*   SpecConcurrent run_benchmark with the names its concurrent phase      *)
(*                  lacks given, up to the start of its search workers     *)
(*   SpecTracker    one LatencyTracker under any sequence of calls         *)
(*   SpecRecall     calculate_recall on one query                          *)
(***************************************************************************)
EXTENDS Naturals, Integers, Sequences, FiniteSets, TLC

(* ------------------------------ bounds -------------------------------- *)
\* number of SearchWorker threads of a phase (num_search_workers)
NumSearchWorkers == 2
\* clock steps the model follows
MaxTicks == 2
\* phase durations are 0..MaxDurationTicks poll intervals
MaxDurationTicks == 1
\* loop iterations the SearchWorkers of a phase may start altogether
MaxIters == 2
\* size of the preloaded query set
NumQueries == 2

\* number of InsertWorker threads is 1..MaxInsertWorkers
MaxInsertWorkers == 2
\* the dataset holds at most MaxVectors vectors,
MaxVectors == 3
\* of which at most MaxInitial are in the collection at the start
MaxInitial == 1
\* insert_batch_size is 1..MaxBatch
MaxBatch == 2
\* loop iterations one InsertWorker may start
MaxInsertIters == 2
\* loop iterations the InsertWorker of a run with a single insert worker
\* may start: enough to go past the fifth error
MaxInsertItersAlone == 5

\* the LatencyTracker of SpecTracker holds at most MaxSamples samples,
MaxSamples == 3
\* each a latency of 0..MaxLatency whole seconds
MaxLatency == 2
\* calls remembered in the history calls
MaxCalls == 3

\* calculate_recall: ids are 1..MaxId,
MaxId == 3
\* a result list and a ground-truth row hold at most MaxListLen ids,
MaxListLen == 2
\* and k is 1..MaxK
MaxK == 2

(* ------------------------- program constants -------------------------- *)
\* time.sleep(10) of the monitor loops
PollInterval == 10
\* worker.join(timeout=10)
JoinTimeout == 10

(* ------------------------------- state -------------------------------- *)
VARIABLES
    now,               \* time.time()
    params,            \* run_benchmark's arguments search_only_duration, duration
    pc,                \* the orchestrator's position in run_benchmark
    i,                 \* index of the orchestrator's current for loop
    start_time,        \* run_benchmark's start_time
    wake,              \* when the pending sleep / join timeout expires
    latencies,         \* run_benchmark's merged list latencies
    search_only_stats, \* run_benchmark's search_only_stats (None = << >>)
    exc,               \* the exception run_benchmark ended with, or "none"
    report,            \* the results written to the json file (<<>>: no file)
    log,               \* kinds of messages printed so far
    sw,                \* the SearchWorker objects and their threads
    trackers,          \* the LatencyTracker objects: their list latencies
    connections,       \* aliases connected through pymilvus connections
    joinTimedOut,      \* history: workers whose join returned on timeout
    iw,                \* the InsertWorker objects and their threads
    hpc,               \* SpecInsert: position of the code that builds the workers
    reader,            \* the dataset reader: its num_vectors
    initial_vectors,   \* vectors already in the collection
    inserted,          \* the collection: for each id, who inserted it how often
    stats,             \* the value a get_stats() call returned (line 451's stats)
    calls,             \* history: the last LatencyTracker methods called
    recall             \* the outcome of a calculate_recall call

orchVars == << params, pc, i, start_time, wake, latencies, search_only_stats,
              exc, report, joinTimedOut >>
insVars == << iw, hpc, reader, initial_vectors, inserted >>
pureVars == << stats, calls, recall >>
vars == << now, orchVars, log, sw, trackers, connections, insVars, pureVars >>

SearchWorkerIds == 0 .. (NumSearchWorkers - 1)
\* the SearchWorker objects of a run: search_only_workers[w] is w, and
\* search_workers[w] of the concurrent phase is ConcurrentKey(w)
ConcurrentKey(w) == NumSearchWorkers + w
ConcurrentWorkerKeys == { ConcurrentKey(w) : w \in SearchWorkerIds }
AllSearchWorkerKeys == SearchWorkerIds \cup ConcurrentWorkerKeys
\* the LatencyTracker of line 391: the trackers of phase 3a are 0..N-1
ConcurrentTracker == NumSearchWorkers
AllInsertWorkerIds == 0 .. (MaxInsertWorkers - 1)
Durations == { k * PollInterval : k \in 0 .. MaxDurationTicks }
None == << >>

(* --------------------------- pure helpers ----------------------------- *)
RECURSIVE SumOver(_, _)
\* sum(f(w) for w in S)
SumOver(f, S) ==
    IF S = {} THEN 0
    ELSE LET x == CHOOSE y \in S : TRUE IN f[x] + SumOver(f, S \ {x})

RECURSIVE SeqMin(_)
SeqMin(s) ==
    IF Len(s) = 1 THEN s[1]
    ELSE LET m == SeqMin(Tail(s)) IN IF s[1] < m THEN s[1] ELSE m

RECURSIVE SeqMax(_)
SeqMax(s) ==
    IF Len(s) = 1 THEN s[1]
    ELSE LET m == SeqMax(Tail(s)) IN IF s[1] > m THEN s[1] ELSE m

\* names bound in the module namespace of benchmark.py (imports, defs, classes)
ModuleGlobals ==
    { "struct", "time", "np", "connections", "Collection", "threading",
      "datetime", "json", "os", "defaultdict", "statistics",
      "COLLECTION_NAME", "TOP_K", "read_spacev1b_queries",
      "read_spacev1b_groundtruth", "calculate_recall", "LatencyTracker",
      "SearchWorker", "InsertWorker", "run_benchmark" }

\* LatencyTracker.record: latencies.append(latency_seconds * 1000)
TrackerRecord(lat, latency_seconds) == Append(lat, latency_seconds * 1000)

(* --------------------------- LatencyTracker --------------------------- *)
RECURSIVE SeqSum(_)
\* sum(s)
SeqSum(s) == IF s = << >> THEN 0 ELSE s[1] + SeqSum(Tail(s))

RECURSIVE InsertSorted(_, _)
InsertSorted(x, s) ==
    IF s = << >> THEN << x >>
    ELSE IF x <= s[1] THEN << x >> \o s
         ELSE << s[1] >> \o InsertSorted(x, Tail(s))

\* Sorted that leaves the list in the order of recording
Sorted_Unsorted(s) == s

RECURSIVE Sorted(_)
\* sorted(s)
Sorted(s) == IF s = << >> THEN << >> ELSE InsertSorted(s[1], Sorted(Tail(s)))

\* np.percentile(a, q) of a sorted list a, q in tenths of a percent (the
\* default method, linear interpolation): the virtual index is
\* q/1000 * (n - 1), and the result lies between the two order statistics
\* around it, a[lo] + (a[hi] - a[lo]) * fraction.  The samples are whole
\* seconds in ms, multiples of 1000, so the division is exact.
Percentile(a, q) ==
    LET n == Len(a)
        h == q * (n - 1)
        lo == h \div 1000
        hi == IF lo + 1 < n THEN lo + 1 ELSE lo
    IN  a[lo + 1] + ((a[hi + 1] - a[lo + 1]) * (h % 1000)) \div 1000

\* the dictionary of lines 60-71 and of lines 338-349, for a non-empty
\* sorted list; statistics.mean is the exact quotient sum / n
StatsOf(sorted_latencies) ==
    [ count |-> Len(sorted_latencies),
      mean_ms |-> [ num |-> SeqSum(sorted_latencies),
                    den |-> Len(sorted_latencies) ],
      p50_ms |-> Percentile(sorted_latencies, 500),
      p80_ms |-> Percentile(sorted_latencies, 800),
      p90_ms |-> Percentile(sorted_latencies, 900),
      p95_ms |-> Percentile(sorted_latencies, 950),
      p99_ms |-> Percentile(sorted_latencies, 990),
      p99_9_ms |-> Percentile(sorted_latencies, 999),
      min_ms |-> SeqMin(sorted_latencies),
      max_ms |-> SeqMax(sorted_latencies) ]

\* the empty dictionary {}
EmptyStats == << >>

\* get_stats without the test of line 54: statistics.mean([]) raises
GetStats_NoEmptyCheck(lat) ==
    IF lat = << >> THEN [ raised |-> "StatisticsError" ]
    ELSE StatsOf(Sorted(lat))

\* LatencyTracker.get_stats, lines 53-71
GetStats(lat) ==
    IF lat = << >> THEN EmptyStats ELSE StatsOf(Sorted(lat))

\* LatencyTracker.reset, lines 73-74
TrackerReset(lat) == << >>

\* threading.Thread.is_alive of a SearchWorker
SwAlive(w) == sw[w].pc \notin { "none", "created", "ended" }

\* f"worker_{self.worker_id}"
SwAlias(w) == << "worker", sw[w].worker_id >>

(* ------------------------- SearchWorker ------------------------------- *)
\* SearchWorker.__init__
NewSearchWorker(w, tracker, duration) ==
    [ pc |-> "created", worker_id |-> w, latency_tracker |-> tracker,
      duration |-> duration, running |-> TRUE, queries_executed |-> 0,
      errors |-> 0, end_time |-> 0, query_idx |-> 0, query |-> 0,
      start |-> 0,       \* the local start; 0 again once it is dead
      latency |-> 0,     \* the local latency; 0 again once it is dead
      iters |-> 0,       \* history: loop iterations started
      late |-> 0,        \* history: calls completed after stop()/deadline
      crashed |-> FALSE  \* the thread ended in an exception
    ]

AbsentWorker ==
    [ NewSearchWorker(0, 0, 0) EXCEPT !.pc = "none", !.running = FALSE ]

\* run(), lines 95-101: connect, open the collection, fix the deadline
SwConnect(w) ==
    /\ sw[w].pc = "connect"
    /\ connections' = connections \cup { SwAlias(w) }
    /\ sw' = [sw EXCEPT ![w].pc = "loop",
                        ![w].end_time = now + sw[w].duration,
                        ![w].query_idx = 0]
    /\ UNCHANGED << now, pureVars, orchVars, insVars, log, trackers >>

\* run(), lines 96-98: connections.connect or Collection raises; the
\* exception is outside the try and ends the thread
SwConnectFail(w) ==
    /\ sw[w].pc = "connect"
    /\ sw' = [sw EXCEPT ![w].pc = "ended", ![w].crashed = TRUE]
    /\ UNCHANGED << now, pureVars, orchVars, insVars, log, trackers, connections >>

\* loop iterations started so far, over all SearchWorkers
ItersStarted ==
    SumOver([v \in AllSearchWorkerKeys |-> sw[v].iters], AllSearchWorkerKeys)

\* SwLoopCondition without the test of self.running
SwLoopCondition_IgnoresRunning(w) == now < sw[w].end_time

\* the condition of the while at line 107
SwLoopCondition(w) == sw[w].running /\ now < sw[w].end_time

\* line 107: evaluate the loop condition
SwLoopCheck(w) ==
    /\ sw[w].pc = "loop"
    /\ IF SwLoopCondition(w)
       THEN /\ ItersStarted < MaxIters
            /\ sw' = [sw EXCEPT ![w].pc = "body", ![w].iters = @ + 1]
       ELSE sw' = [sw EXCEPT ![w].pc = "disconnect"]
    /\ UNCHANGED << now, pureVars, orchVars, insVars, log, trackers, connections >>

\* lines 110-115: select the query, take the start time, issue the search
SwSearchStart(w) ==
    /\ sw[w].pc = "body"
    /\ sw' = [sw EXCEPT ![w].pc = "call",
                        ![w].query = sw[w].query_idx % NumQueries,
                        ![w].start = now]
    /\ UNCHANGED << now, pureVars, orchVars, insVars, log, trackers, connections >>

\* lines 115-122: the search returns; latency = time.time() - start
SwSearchReturn(w) ==
    /\ sw[w].pc = "call"
    /\ sw' = [sw EXCEPT ![w].pc = "record", ![w].latency = now - sw[w].start,
                        ![w].start = 0]
    /\ UNCHANGED << now, pureVars, orchVars, insVars, log, trackers, connections >>

\* has stop() been called on the worker, or has its deadline passed
SwStopRequested(w) == ~sw[w].running \/ now >= sw[w].end_time

\* SwSearchFail without the try/except: the exception ends the thread
SwSearchFail_Uncaught(w) ==
    /\ sw[w].pc = "call"
    /\ sw' = [sw EXCEPT ![w].pc = "ended", ![w].crashed = TRUE, ![w].start = 0]
    /\ UNCHANGED << now, pureVars, orchVars, insVars, log, trackers, connections >>

\* SwSearchFail that records the time spent in the failed call
SwSearchFail_RecordsLatency(w) ==
    /\ sw[w].pc = "call"
    /\ sw' = [sw EXCEPT ![w].pc = "loop", ![w].errors = @ + 1,
                        ![w].start = 0,
                        ![w].late = IF SwStopRequested(w) THEN @ + 1 ELSE @]
    /\ trackers' = [trackers EXCEPT ![sw[w].latency_tracker] =
                        TrackerRecord(@, now - sw[w].start)]
    /\ log' = log \cup { "search_error" }
    /\ UNCHANGED << now, pureVars, orchVars, insVars, connections >>

\* lines 132-134: the search raises; errors += 1, print, next iteration
SwSearchFail(w) ==
    /\ sw[w].pc = "call"
    /\ sw' = [sw EXCEPT ![w].pc = "loop", ![w].errors = @ + 1,
                        ![w].start = 0,
                        ![w].late = IF SwStopRequested(w) THEN @ + 1 ELSE @]
    /\ log' = log \cup { "search_error" }
    /\ UNCHANGED << now, pureVars, orchVars, insVars, trackers, connections >>

\* line 124: self.latency_tracker.record(latency)
SwRecord(w) ==
    /\ sw[w].pc = "record"
    /\ trackers' = [trackers EXCEPT ![sw[w].latency_tracker] =
                        TrackerRecord(@, sw[w].latency)]
    /\ sw' = [sw EXCEPT ![w].pc = "count", ![w].latency = 0]
    /\ UNCHANGED << now, pureVars, orchVars, insVars, log, connections >>

\* lines 125-126: queries_executed += 1; query_idx += 1
SwCount(w) ==
    /\ sw[w].pc = "count"
    /\ sw' = [sw EXCEPT ![w].pc = "loop", ![w].queries_executed = @ + 1,
                        ![w].query_idx = @ + 1,
                        ![w].late = IF SwStopRequested(w) THEN @ + 1 ELSE @]
    /\ UNCHANGED << now, pureVars, orchVars, insVars, log, trackers, connections >>

\* SwDisconnect without the disconnect: the thread ends, the alias stays
SwDisconnect_Skipped(w) ==
    /\ sw[w].pc = "disconnect"
    /\ sw' = [sw EXCEPT ![w].pc = "ended"]
    /\ UNCHANGED << now, pureVars, orchVars, insVars, log, trackers, connections >>

\* line 136: connections.disconnect(connection_alias); the thread ends
SwDisconnect(w) ==
    /\ sw[w].pc = "disconnect"
    /\ connections' = connections \ { SwAlias(w) }
    /\ sw' = [sw EXCEPT ![w].pc = "ended"]
    /\ UNCHANGED << now, pureVars, orchVars, insVars, log, trackers >>

\* SwStop that leaves the flag as it is
SwStop_Noop(s, w) == s

\* SearchWorker.stop, lines 138-139
SwStop(s, w) == [s EXCEPT ![w].running = FALSE]

(* ------------------------------ clock --------------------------------- *)
Tick ==
    /\ now < MaxTicks * PollInterval
    /\ now' = now + PollInterval
    /\ UNCHANGED << orchVars, insVars, pureVars, log, sw, trackers, connections >>

(* ------------------- run_benchmark: search-only phase ----------------- *)
\* lines 251-307: load the query set; with search_only_duration > 0 build
\* the search-only workers, each with its own LatencyTracker, and take
\* start_time; otherwise go on to phase 3b
OrchBegin ==
    /\ pc = "begin"
    /\ IF params.search_only_duration > 0
       THEN /\ sw' = [w \in AllSearchWorkerKeys |->
                        IF w \in SearchWorkerIds
                        THEN NewSearchWorker(w, w, params.search_only_duration)
                        ELSE sw[w]]
            /\ trackers' = [w \in SearchWorkerIds |-> << >>]
            /\ start_time' = now
            /\ pc' = "so_start"
            /\ log' = log \cup { "phase3a" }
       ELSE /\ pc' = "phase3b"
            /\ UNCHANGED << sw, trackers, start_time, log >>
    /\ i' = 0
    /\ UNCHANGED << now, pureVars, params, wake, latencies, search_only_stats, exc,
                    report, joinTimedOut, connections, insVars >>

\* lines 308-309: worker.start() for the next worker
OrchStartWorker ==
    /\ pc = "so_start"
    /\ i < NumSearchWorkers
    /\ sw' = [sw EXCEPT ![i].pc = "connect"]
    /\ i' = i + 1
    /\ UNCHANGED << now, pureVars, params, pc, start_time, wake, latencies,
                    search_only_stats, exc, report, joinTimedOut, log, trackers,
                    connections, insVars >>

\* line 313: the condition of the monitor loop (also entered from the end
\* of the for loop at 308); line 314: time.sleep(10) begins
OrchMonitorCheck ==
    /\ \/ pc = "so_start" /\ i = NumSearchWorkers
       \/ pc = "so_monitor"
    /\ IF now - start_time < params.search_only_duration
       THEN /\ pc' = "so_sleep"
            /\ wake' = now + PollInterval
            /\ UNCHANGED << i, log >>
       ELSE /\ pc' = "so_stop"           \* line 323
            /\ i' = 0
            /\ log' = log \cup { "stopping" }
            /\ UNCHANGED wake
    /\ UNCHANGED << now, pureVars, params, start_time, latencies, search_only_stats,
                    exc, report, joinTimedOut, sw, trackers, connections,
                    insVars >>

\* total_searches of lines 317 and 353
TotalSearches == SumOver([w \in SearchWorkerIds |-> sw[w].queries_executed],
                         SearchWorkerIds)

\* search_only_errors of line 354
TotalSearchErrors == SumOver([w \in SearchWorkerIds |-> sw[w].errors],
                             SearchWorkerIds)

\* OrchPoll that also clears the workers' trackers when it reports
OrchPoll_ClearsTrackers ==
    /\ pc = "so_sleep"
    /\ now >= wake
    /\ now - start_time > 0
    /\ log' = log \cup { "progress" }
    /\ pc' = "so_monitor"
    /\ trackers' = [t \in DOMAIN trackers |-> TrackerReset(trackers[t])]
    /\ UNCHANGED << now, pureVars, params, i, start_time, wake, latencies,
                    search_only_stats, exc, report, joinTimedOut, sw,
                    connections, insVars >>

\* lines 314-320: the sleep is over; read the counters, print the progress
OrchPoll ==
    /\ pc = "so_sleep"
    /\ now >= wake
    /\ now - start_time > 0              \* elapsed, the divisor of line 318
    /\ log' = log \cup { "progress" }
    /\ pc' = "so_monitor"
    /\ UNCHANGED << now, pureVars, params, i, start_time, wake, latencies,
                    search_only_stats, exc, report, joinTimedOut, sw, trackers,
                    connections, insVars >>

\* lines 324-325: worker.stop() for the next worker; line 328 after the last
OrchStopWorker ==
    /\ pc = "so_stop"
    /\ IF i < NumSearchWorkers
       THEN /\ sw' = SwStop(sw, i)
            /\ i' = i + 1
            /\ UNCHANGED << pc, latencies >>
       ELSE /\ latencies' = << >>
            /\ i' = 0
            /\ pc' = "so_merge"
            /\ UNCHANGED sw
    /\ UNCHANGED << now, pureVars, params, start_time, wake, search_only_stats, exc,
                    report, joinTimedOut, log, trackers, connections, insVars >>

\* line 331: latencies.extend(worker.latency_tracker.latencies), then
\* line 332: worker.join(timeout=10) begins
OrchMerge ==
    /\ pc = "so_merge"
    /\ i < NumSearchWorkers
    /\ latencies' = latencies \o trackers[sw[i].latency_tracker]
    /\ wake' = now + JoinTimeout
    /\ pc' = "so_join"
    /\ UNCHANGED << now, pureVars, params, i, start_time, search_only_stats, exc,
                    report, joinTimedOut, log, sw, trackers, connections,
                    insVars >>

\* line 332: join returns because the thread has ended
OrchJoinEnded ==
    /\ pc = "so_join"
    /\ ~SwAlive(i)
    /\ i' = i + 1
    /\ pc' = "so_merge"
    /\ UNCHANGED << now, pureVars, params, start_time, wake, latencies,
                    search_only_stats, exc, report, joinTimedOut, log, sw,
                    trackers, connections, insVars >>

\* line 332: join returns because the timeout has expired; the return
\* value is not looked at and is_alive() is not called
OrchJoinTimeout ==
    /\ pc = "so_join"
    /\ SwAlive(i)
    /\ now >= wake
    /\ joinTimedOut' = joinTimedOut \cup { i }
    /\ i' = i + 1
    /\ pc' = "so_merge"
    /\ UNCHANGED << now, pureVars, params, start_time, wake, latencies,
                    search_only_stats, exc, report, log, sw, trackers,
                    connections, insVars >>

\* PhaseElapsed taken to be the duration the phase was asked to last
PhaseElapsed_Configured == params.search_only_duration

\* line 351: search_only_time = time.time() - start_time
PhaseElapsed == now - start_time

\* lines 335-349: the statistics of the merged list, for a non-empty list
MergedStats(lat) == StatsOf(Sorted(lat))

\* lines 335-361: statistics.mean raises StatisticsError on an empty list;
\* otherwise the counters are summed and search_only_stats is built
OrchCollect ==
    /\ pc = "so_merge"
    /\ i = NumSearchWorkers
    /\ IF latencies = << >>
       THEN /\ pc' = "raised"
            /\ exc' = "StatisticsError"
            /\ UNCHANGED << search_only_stats, log >>
       ELSE /\ search_only_stats' =
                 [ duration_seconds |-> PhaseElapsed,
                   total_queries |-> TotalSearches,
                   errors |-> TotalSearchErrors,
                   actual_qps |-> [ num |-> TotalSearches,
                                    den |-> PhaseElapsed ],
                   latency |-> MergedStats(latencies) ]
            /\ log' = log \cup { "search_only_results" }
            /\ pc' = "phase3b"
            /\ UNCHANGED exc
    /\ UNCHANGED << now, pureVars, params, i, start_time, wake, latencies, report,
                    joinTimedOut, sw, trackers, connections, insVars >>

(* ------------------- run_benchmark: concurrent phase ------------------ *)
\* lines 383-386: print the header of phase 3b; if duration > 0
OrchPhase3b ==
    /\ pc = "phase3b"
    /\ log' = log \cup { "phase3b" }
    /\ pc' = IF params.duration > 0 THEN "c_setup" ELSE "save"
    /\ UNCHANGED << now, pureVars, params, i, start_time, wake, latencies,
                    search_only_stats, exc, report, joinTimedOut, sw, trackers,
                    connections, insVars >>

\* lines 387-398: remaining_vectors = reader.num_vectors - initial_vectors
\* reads the names reader and initial_vectors, which run_benchmark neither
\* takes as parameters nor assigns and the module does not bind: NameError
OrchConcurrentSetup ==
    /\ pc = "c_setup"
    /\ "reader" \notin ModuleGlobals
    /\ pc' = "raised"
    /\ exc' = "NameError"
    /\ UNCHANGED << now, pureVars, params, i, start_time, wake, latencies,
                    search_only_stats, report, joinTimedOut, log, sw, trackers,
                    connections, insVars >>

(* ---- the search workers of the concurrent phase, lines 390-438,  ---- *)
(* ---- given the names reader and initial_vectors and the two      ---- *)
(* ---- connection arguments of the InsertWorkers                   ---- *)
\* lines 390-399: one LatencyTracker for the phase
OrchConcurrentTracker ==
    /\ pc = "c_setup"
    /\ trackers' = (ConcurrentTracker :> << >>) @@ trackers
    /\ i' = 0
    /\ pc' = "c_create"
    /\ UNCHANGED << now, pureVars, params, start_time, wake, latencies,
                    search_only_stats, exc, report, joinTimedOut, log, sw,
                    connections, insVars >>

\* lines 402-413: one turn of the loop that builds the search workers, all
\* with the tracker of line 391; after the last, the insert workers are
\* built (lines 416-433, CreateInsertWorker) and start_time is taken
OrchCreateSearchWorker ==
    /\ pc = "c_create"
    /\ IF i < NumSearchWorkers
       THEN /\ sw' = [sw EXCEPT ![ConcurrentKey(i)] =
                        NewSearchWorker(i, ConcurrentTracker, params.duration)]
            /\ i' = i + 1
            /\ UNCHANGED << pc, start_time >>
       ELSE /\ start_time' = now            \* line 436
            /\ pc' = "c_start"
            /\ i' = 0
            /\ UNCHANGED sw
    /\ UNCHANGED << now, pureVars, params, wake, latencies,
                    search_only_stats, exc, report, joinTimedOut, log,
                    trackers, connections, insVars >>

\* lines 437-438: worker.start() for the next search worker; the model
\* follows the phase as far as the start of the last search worker
OrchStartConcurrentWorker ==
    /\ pc = "c_start"
    /\ IF i < NumSearchWorkers
       THEN /\ sw' = [sw EXCEPT ![ConcurrentKey(i)].pc = "connect"]
            /\ i' = i + 1
            /\ UNCHANGED pc
       ELSE /\ pc' = "c_running"
            /\ UNCHANGED << sw, i >>
    /\ UNCHANGED << now, pureVars, params, start_time, wake, latencies,
                    search_only_stats, exc, report, joinTimedOut, log,
                    trackers, connections, insVars >>

(* ------------------------ run_benchmark: report ----------------------- *)
\* lines 540-571: the dictionary results; the "concurrent" entry is
\* commented out (lines 556-569)
Results ==
    [ config |-> params, results |-> [ search_only |-> search_only_stats ] ]

\* lines 573-578: json.dump(results) into the timestamped file
OrchSave ==
    /\ pc = "save"
    /\ report' = Results
    /\ log' = log \cup { "saved" }
    /\ pc' = "done"
    /\ UNCHANGED << now, pureVars, params, i, start_time, wake, latencies,
                    search_only_stats, exc, joinTimedOut, sw, trackers,
                    connections, insVars >>


(* ========================== InsertWorker ============================== *)
\* attributes InsertWorker.__init__ sets on self (lines 148-160)
InsertWorkerAttrs ==
    { "worker_id", "collection_name", "reader", "current_idx", "end_idx",
      "batch_size", "target_qps", "duration", "running", "vectors_inserted",
      "errors", "milvus_host", "milvus_port" }

Min(a, b) == IF a < b THEN a ELSE b

\* f"insert_worker_{self.worker_id}"
IwAlias(w) == << "insert_worker", w >>

\* InsertWorker.__init__
NewInsertWorker(w, start_idx, end_idx, batch_size, target_qps, duration) ==
    [ pc |-> "created", worker_id |-> w,
      start_idx |-> start_idx,  \* history: the constructor's argument
      current_idx |-> start_idx, end_idx |-> end_idx,
      batch_size |-> batch_size, target_qps |-> target_qps,
      duration |-> duration, running |-> TRUE, vectors_inserted |-> 0,
      errors |-> 0, end_time |-> 0,
      batch |-> 0,              \* the local batch; 0 again once it is dead
      data |-> << >>,           \* the ids of the local data; <<>> once dead
      iters |-> 0,              \* history: loop iterations started
      sleeps |-> 0,             \* history: pacing sleeps taken
      logged |-> 0,             \* history: error messages printed
      exc |-> "none"            \* the exception the thread ended with
    ]

\* an InsertWorker that has not been constructed
AbsentInsertWorker ==
    [ NewInsertWorker(0, 0, 0, 0, 0, 0) EXCEPT !.pc = "none", !.running = FALSE ]

\* run(), lines 163-172: connect, open the collection, fix the deadline
IwConnect(w) ==
    /\ iw[w].pc = "connect"
    /\ connections' = connections \cup { IwAlias(w) }
    /\ iw' = [iw EXCEPT ![w].pc = "loop",
                        ![w].end_time = now + iw[w].duration]
    /\ UNCHANGED << now, pureVars, orchVars, log, sw, trackers, hpc, reader,
                    initial_vectors, inserted >>

\* lines 164-166: connections.connect or Collection raises, outside the try
IwConnectFail(w) ==
    /\ iw[w].pc = "connect"
    /\ iw' = [iw EXCEPT ![w].pc = "ended", ![w].exc = "ConnectError"]
    /\ UNCHANGED << now, pureVars, orchVars, log, sw, trackers, connections, hpc,
                    reader, initial_vectors, inserted >>

\* line 172: delay = batch_size / target_qps if target_qps > 0 else 0
Delay(w) ==
    IF iw[w].target_qps > 0
    THEN [ num |-> iw[w].batch_size, den |-> iw[w].target_qps ]
    ELSE [ num |-> 0, den |-> 1 ]

\* loop iterations an InsertWorker may start in this run
InsertIterBudget ==
    IF params.num_insert_workers = 1 THEN MaxInsertItersAlone
    ELSE MaxInsertIters

\* the condition of the while at line 174
IwLoopCondition(w) ==
    iw[w].running /\ now < iw[w].end_time /\ iw[w].current_idx < iw[w].end_idx

\* line 174: evaluate the loop condition
IwLoopCheck(w) ==
    /\ iw[w].pc = "loop"
    /\ IF IwLoopCondition(w)
       THEN /\ iw[w].iters < InsertIterBudget
            /\ iw' = [iw EXCEPT ![w].pc = "body", ![w].iters = @ + 1]
       ELSE iw' = [iw EXCEPT ![w].pc = "disconnect"]
    /\ UNCHANGED << now, pureVars, orchVars, log, sw, trackers, connections, hpc,
                    reader, initial_vectors, inserted >>

\* lines 177-178
Remaining(w) ==
    Min(iw[w].end_idx - iw[w].current_idx,
        reader.num_vectors - iw[w].current_idx)

\* Batch without the bound of what remains
Batch_Unclamped(w) == iw[w].batch_size

\* line 184
Batch(w) == Min(iw[w].batch_size, Remaining(w))

\* reader.read_vectors(start, count): the number of vectors it may return
ReadLens(start, count) == 0 .. count

\* BatchData with "id": i, the index within the batch
BatchData_LocalIndex(current_idx, n) == [ k \in 1 .. n |-> k - 1 ]

\* lines 194-200: the ids of data, "id": self.current_idx + i
BatchData(current_idx, n) == [ k \in 1 .. n |-> current_idx + (k - 1) ]

\* IwBreak that treats the end of the data as a failed iteration
IwBreak_CountedAsError(w) ==
    [iw EXCEPT ![w].pc = "loop", ![w].errors = @ + 1]

\* the break of lines 182 and 191: control leaves the while loop for the
\* statement after it
IwBreak(w) == [iw EXCEPT ![w].pc = "disconnect"]

\* lines 177-200: size the batch, read it, build data; break when nothing
\* is left or nothing was read
IwPrepare(w) ==
    /\ iw[w].pc = "body"
    /\ IF Remaining(w) <= 0
       THEN iw' = IwBreak(w)                 \* line 182
       ELSE \E n \in ReadLens(iw[w].current_idx, Batch(w)) :
              IF n = 0
              THEN iw' = IwBreak(w)          \* line 191
              ELSE iw' = [iw EXCEPT ![w].pc = "insert",
                                    ![w].batch = Batch(w),
                                    ![w].data = BatchData(iw[w].current_idx, n)]
    /\ UNCHANGED << now, pureVars, orchVars, log, sw, trackers, connections, hpc,
                    reader, initial_vectors, inserted >>

\* IwExcept without the try/except: the exception ends the thread
IwExcept_Uncaught(w) ==
    /\ iw' = [iw EXCEPT ![w].pc = "ended", ![w].exc = "AttributeError",
                        ![w].batch = 0, ![w].data = << >>]
    /\ UNCHANGED << log, inserted >>

\* IwExcept that prints a message for every error
IwExcept_LogsAll(w) ==
    /\ iw' = [iw EXCEPT ![w].pc = "loop", ![w].errors = @ + 1,
                        ![w].logged = @ + 1,
                        ![w].batch = 0, ![w].data = << >>]
    /\ log' = log \cup { "insert_error" }
    /\ UNCHANGED inserted

\* IwExcept that moves the cursor past the batch that failed
IwExcept_SkipsBatch(w) ==
    /\ iw' = [iw EXCEPT ![w].pc = "loop", ![w].errors = @ + 1,
                        ![w].current_idx = @ + Len(iw[w].data),
                        ![w].batch = 0, ![w].data = << >>]
    /\ UNCHANGED << log, inserted >>

\* lines 212-215: the except clause: errors += 1, print the first four;
\* the sleep of lines 209-210 is in the try and is not reached
IwExcept(w) ==
    /\ iw' = [iw EXCEPT ![w].pc = "loop", ![w].errors = @ + 1,
                        ![w].logged = IF iw[w].errors + 1 < 5 THEN @ + 1 ELSE @,
                        ![w].batch = 0, ![w].data = << >>]
    /\ log' = IF iw[w].errors + 1 < 5 THEN log \cup { "insert_error" } ELSE log
    /\ UNCHANGED inserted

\* lines 203-210: self.collection.insert(...). self has no attribute
\* collection (the collection is the local of line 166), so the attribute
\* lookup raises AttributeError inside the try, before any call reaches the
\* backend; were it bound, the insert would be accepted (counters and cursor
\* advance by len(vectors), then the pacing sleep if delay > 0) or raise
IwInsert(w) ==
    /\ iw[w].pc = "insert"
    /\ IF "collection" \in InsertWorkerAttrs
       THEN \/ /\ inserted' = inserted \o
                     [ k \in 1 .. Len(iw[w].data) |-> << w, iw[w].data[k] >> ]
               /\ iw' = [iw EXCEPT ![w].pc = "loop",
                                   ![w].vectors_inserted = @ + Len(iw[w].data),
                                   ![w].current_idx = @ + Len(iw[w].data),
                                   ![w].sleeps =
                                       IF Delay(w).num > 0 THEN @ + 1 ELSE @,
                                   ![w].batch = 0, ![w].data = << >>]
               /\ UNCHANGED log
            \/ IwExcept(w)
       ELSE IwExcept(w)
    /\ UNCHANGED << now, pureVars, orchVars, sw, trackers, connections, hpc, reader,
                    initial_vectors >>

\* line 217: connection.disconnect(connection_alias). The module binds
\* connections, not connection: NameError ends the thread and the alias
\* stays connected
IwDisconnect(w) ==
    /\ iw[w].pc = "disconnect"
    /\ IF "connection" \in ModuleGlobals
       THEN /\ connections' = connections \ { IwAlias(w) }
            /\ iw' = [iw EXCEPT ![w].pc = "ended"]
       ELSE /\ iw' = [iw EXCEPT ![w].pc = "ended", ![w].exc = "NameError"]
            /\ UNCHANGED connections
    /\ UNCHANGED << now, pureVars, orchVars, log, sw, trackers, hpc, reader,
                    initial_vectors, inserted >>

\* InsertWorker.stop, lines 218-219
IwStop(s, w) == [s EXCEPT ![w].running = FALSE]

(* ---- the InsertWorkers of run_benchmark, lines 395-462, given the ---- *)
(* ---- reader, initial_vectors and the two connection arguments     ---- *)
\* lines 398-399
VectorsPerInsertWorker ==
    (reader.num_vectors - initial_vectors) \div params.num_insert_workers

\* line 418
RangeStart(w) == initial_vectors + w * VectorsPerInsertWorker

\* RangeEnd without the special case of the last worker
RangeEnd_NoRemainder(w) == RangeStart(w) + VectorsPerInsertWorker

\* lines 419-421: the last worker gets any remainder
RangeEnd(w) ==
    IF w = params.num_insert_workers - 1
    THEN reader.num_vectors
    ELSE RangeStart(w) + VectorsPerInsertWorker

\* lines 417-433: one turn of the loop that builds the insert workers
CreateInsertWorker ==
    /\ hpc = "create"
    /\ IF i < params.num_insert_workers
       THEN /\ iw' = [iw EXCEPT ![i] =
                        NewInsertWorker(i, RangeStart(i), RangeEnd(i),
                            params.insert_batch_size,
                            params.insert_qps \div params.num_insert_workers,
                            params.duration)]
            /\ i' = i + 1
            /\ UNCHANGED << hpc, start_time >>
       ELSE /\ start_time' = now            \* line 436
            /\ hpc' = "start"
            /\ i' = 0
            /\ UNCHANGED iw
    /\ UNCHANGED << now, pureVars, params, pc, wake, latencies, search_only_stats, exc,
                    report, joinTimedOut, log, sw, trackers, connections,
                    reader, initial_vectors, inserted >>

\* lines 437-438: worker.start() for the next insert worker
StartInsertWorker ==
    /\ hpc = "start"
    /\ IF i < params.num_insert_workers
       THEN /\ iw' = [iw EXCEPT ![i].pc = "connect"]
            /\ i' = i + 1
            /\ UNCHANGED hpc
       ELSE /\ hpc' = "monitor"
            /\ i' = 0
            /\ UNCHANGED iw
    /\ UNCHANGED << now, pureVars, params, pc, start_time, wake, latencies,
                    search_only_stats, exc, report, joinTimedOut, log, sw,
                    trackers, connections, reader, initial_vectors, inserted >>

\* lines 442-462: the monitor loop ends when the duration has elapsed;
\* then worker.stop() for every insert worker
StopInsertWorker ==
    /\ \/ hpc = "monitor" /\ now - start_time >= params.duration
       \/ hpc = "stop"
    /\ IF i < params.num_insert_workers
       THEN /\ iw' = IwStop(iw, i)
            /\ i' = i + 1
            /\ hpc' = "stop"
       ELSE /\ hpc' = "join"
            /\ i' = 0
            /\ UNCHANGED iw
    /\ UNCHANGED << now, pureVars, params, pc, start_time, wake, latencies,
                    search_only_stats, exc, report, joinTimedOut, log, sw,
                    trackers, connections, reader, initial_vectors, inserted >>

(* ================== the calls of one LatencyTracker =================== *)
\* the history calls with c added, the oldest entry dropped when full
PushCall(c) ==
    IF Len(calls) < MaxCalls THEN Append(calls, c) ELSE Append(Tail(calls), c)

\* a call tracker.record(latency_seconds); a value returned earlier is
\* dropped
TrackerRecordCall(t, latency_seconds) ==
    /\ Len(trackers[t]) < MaxSamples
    /\ trackers' = [trackers EXCEPT ![t] = TrackerRecord(@, latency_seconds)]
    /\ stats' = None
    /\ calls' = PushCall("record")
    /\ UNCHANGED << now, orchVars, insVars, log, sw, connections, recall >>

\* a call tracker.reset(); a value returned earlier is dropped
TrackerResetCall(t) ==
    /\ trackers' = [trackers EXCEPT ![t] = TrackerReset(@)]
    /\ stats' = None
    /\ calls' = PushCall("reset")
    /\ UNCHANGED << now, orchVars, insVars, log, sw, connections, recall >>

\* stats = tracker.get_stats() (as at lines 451 and 475)
TrackerGetStatsCall(t) ==
    /\ stats' = GetStats(trackers[t])
    /\ calls' = PushCall("get_stats")
    /\ UNCHANGED << now, orchVars, insVars, log, sw, trackers, connections,
                    recall >>

\* lines 328-349 applied to the samples of tracker t: the merged list of
\* a phase whose workers recorded them; statistics.mean raises on an empty
\* list
PhaseStatsCall(t) ==
    /\ stats' = IF trackers[t] = << >> THEN [ raised |-> "StatisticsError" ]
                ELSE MergedStats(<< >> \o trackers[t])
    /\ calls' = PushCall("phase_stats")
    /\ UNCHANGED << now, orchVars, insVars, log, sw, trackers, connections,
                    recall >>

(* ========================= calculate_recall =========================== *)
\* set(s) of a list s
Ids(s) == { s[j] : j \in 1 .. Len(s) }

\* s[:k]
Prefix(s, k) == SubSeq(s, 1, Min(k, Len(s)))

\* lines 38-40, for one pair of zip(results, ground_truth): the quotient
\* num / den, or ZeroDivisionError when min(k, len(truth_ids)) is 0
QueryRecall(result, truth, k) ==
    LET result_ids == Ids(result)
        truth_ids == Ids(Prefix(truth, k))
        den == Min(k, Cardinality(truth_ids))
    IN  IF den = 0 THEN [ raised |-> "ZeroDivisionError" ]
        ELSE [ num |-> Cardinality(result_ids \cap truth_ids), den |-> den ]

\* calculate_recall, lines 34-42, for one query: np.mean of the one-element
\* list recalls is its element
calculate_recall(results, ground_truth, k) ==
    QueryRecall(results[1], ground_truth[1], k)

\* the call calculate_recall(results, ground_truth, k)
CalculateRecallCall ==
    /\ recall = None
    /\ recall' = calculate_recall(params.results, params.ground_truth, params.k)
    /\ UNCHANGED << now, params, pc, i, start_time, wake, latencies,
                    search_only_stats, exc, report, joinTimedOut, insVars,
                    log, sw, trackers, connections, stats, calls >>

(* ========================== specifications ============================ *)
Init ==
    /\ now = 0
    /\ params \in [ search_only_duration : Durations, duration : Durations ]
    /\ pc = "begin"
    /\ i = 0
    /\ start_time = 0
    /\ wake = 0
    /\ latencies = << >>
    /\ search_only_stats = None
    /\ exc = "none"
    /\ report = None
    /\ log = {}
    /\ sw = [w \in AllSearchWorkerKeys |-> AbsentWorker]
    /\ trackers = << >>
    /\ connections = {}
    /\ joinTimedOut = {}
    /\ iw = [w \in AllInsertWorkerIds |-> AbsentInsertWorker]
    /\ hpc = "off"
    /\ reader = [ num_vectors |-> 0 ]
    /\ initial_vectors = 0
    /\ inserted = << >>
    /\ stats = None
    /\ calls = << >>
    /\ recall = None

Next ==
    \/ Tick
    \/ OrchBegin
    \/ OrchStartWorker
    \/ OrchMonitorCheck
    \/ OrchPoll
    \/ OrchStopWorker
    \/ OrchMerge
    \/ OrchJoinEnded
    \/ OrchJoinTimeout
    \/ OrchCollect
    \/ OrchPhase3b
    \/ OrchConcurrentSetup
    \/ OrchSave
    \/ \E w \in SearchWorkerIds :
          \/ SwConnect(w)
          \/ SwConnectFail(w)
          \/ SwLoopCheck(w)
          \/ SwSearchStart(w)
          \/ SwSearchReturn(w)
          \/ SwSearchFail(w)
          \/ SwRecord(w)
          \/ SwCount(w)
          \/ SwDisconnect(w)

Spec == Init /\ [][Next]_vars

\* the steps of a SearchWorker's thread once it is connected (lines 107-136)
SwRun(w) ==
    \/ SwLoopCheck(w)
    \/ SwSearchStart(w)
    \/ SwSearchReturn(w)
    \/ SwSearchFail(w)
    \/ SwRecord(w)
    \/ SwCount(w)
    \/ SwDisconnect(w)

\* Spec with a fair scheduler for the worker threads: a thread that can
\* take a step is not held back for ever, and a search call in progress
\* comes back (it returns or it raises)
SpecFair == Spec /\ \A w \in SearchWorkerIds : WF_vars(SwRun(w))

InitInsert ==
    /\ now = 0
    /\ params \in [ num_insert_workers : 1 .. MaxInsertWorkers,
                    insert_batch_size : 1 .. MaxBatch,
                    insert_qps : { 0, MaxInsertWorkers },
                    duration : Durations ]
    /\ initial_vectors \in 0 .. MaxInitial
    /\ reader \in [ num_vectors : initial_vectors .. MaxVectors ]
    /\ hpc = "create"
    /\ i = 0
    /\ iw = [w \in AllInsertWorkerIds |-> AbsentInsertWorker]
    /\ inserted = << >>
    /\ pc = "off"
    /\ start_time = 0
    /\ wake = 0
    /\ latencies = << >>
    /\ search_only_stats = None
    /\ exc = "none"
    /\ report = None
    /\ log = {}
    /\ sw = [w \in AllSearchWorkerKeys |-> AbsentWorker]
    /\ trackers = << >>
    /\ connections = {}
    /\ joinTimedOut = {}
    /\ stats = None
    /\ calls = << >>
    /\ recall = None

NextInsert ==
    \/ Tick
    \/ CreateInsertWorker
    \/ StartInsertWorker
    \/ StopInsertWorker
    \/ \E w \in AllInsertWorkerIds :
          \/ IwConnect(w)
          \/ IwConnectFail(w)
          \/ IwLoopCheck(w)
          \/ IwPrepare(w)
          \/ IwInsert(w)
          \/ IwDisconnect(w)

SpecInsert == InitInsert /\ [][NextInsert]_vars

\* the construction of the insert workers alone: the partition of
\* [initial_vectors, reader.num_vectors) for every input of InitInsert
NextPartition == CreateInsertWorker

SpecPartition == InitInsert /\ [][NextPartition]_vars

\* run_benchmark with the names and arguments given that its concurrent
\* phase lacks, as far as the start of the phase's search workers
NextConcurrent ==
    \/ Tick
    \/ OrchBegin
    \/ OrchStartWorker
    \/ OrchMonitorCheck
    \/ OrchPoll
    \/ OrchStopWorker
    \/ OrchMerge
    \/ OrchJoinEnded
    \/ OrchJoinTimeout
    \/ OrchCollect
    \/ OrchPhase3b
    \/ OrchConcurrentTracker
    \/ OrchCreateSearchWorker
    \/ OrchStartConcurrentWorker
    \/ OrchSave
    \/ \E w \in AllSearchWorkerKeys :
          \/ SwConnect(w)
          \/ SwConnectFail(w)
          \/ SwLoopCheck(w)
          \/ SwSearchStart(w)
          \/ SwSearchReturn(w)
          \/ SwSearchFail(w)
          \/ SwRecord(w)
          \/ SwCount(w)
          \/ SwDisconnect(w)

SpecConcurrent == Init /\ [][NextConcurrent]_vars

\* the initial values of the variables that the specification of a pure
\* function does not use, and of its outputs
Idle ==
    /\ now = 0
    /\ pc = "off"
    /\ i = 0
    /\ start_time = 0
    /\ wake = 0
    /\ latencies = << >>
    /\ search_only_stats = None
    /\ exc = "none"
    /\ report = None
    /\ log = {}
    /\ sw = [w \in AllSearchWorkerKeys |-> AbsentWorker]
    /\ connections = {}
    /\ joinTimedOut = {}
    /\ iw = [w \in AllInsertWorkerIds |-> AbsentInsertWorker]
    /\ hpc = "off"
    /\ reader = [ num_vectors |-> 0 ]
    /\ initial_vectors = 0
    /\ inserted = << >>
    /\ stats = None
    /\ calls = << >>
    /\ recall = None

\* one LatencyTracker, fresh from __init__ (lines 47-48), and any sequence
\* of calls of its methods
InitTracker ==
    /\ Idle
    /\ params = << >>
    /\ trackers = [t \in {0} |-> << >>]

NextTracker ==
    \E t \in DOMAIN trackers :
        \/ \E latency_seconds \in 0 .. MaxLatency :
              TrackerRecordCall(t, latency_seconds)
        \/ TrackerResetCall(t)
        \/ TrackerGetStatsCall(t)
        \/ PhaseStatsCall(t)

SpecTracker == InitTracker /\ [][NextTracker]_vars

\* lists of at most MaxListLen ids
IdLists == UNION { [1 .. n -> 1 .. MaxId] : n \in 0 .. MaxListLen }

\* calculate_recall called once on one query's result list and
\* ground-truth row
InitRecall ==
    /\ Idle
    /\ params \in [ results : { << r >> : r \in IdLists },
                    ground_truth : { << t >> : t \in IdLists },
                    k : 1 .. MaxK ]
    /\ trackers = << >>

NextRecall == CalculateRecallCall

SpecRecall == InitRecall /\ [][NextRecall]_vars

(* ============================== claims ================================ *)
\* run_benchmark has returned (report written) or ended in an exception
OrchTerminated == pc \in { "done", "raised" }

\* the search-only phase was skipped or got as far as its summary
SearchOnlyCompleted == "search_only_results" \in log

C4_FailedSearchCounted ==
    /\ [](\A w \in SearchWorkerIds :
            sw[w].queries_executed + sw[w].errors <= sw[w].iters)
    /\ [][\A w \in SearchWorkerIds :
            (sw[w].pc = "call" /\ sw'[w].pc \notin { "call", "record" }) =>
                /\ sw'[w].errors = sw[w].errors + 1
                /\ sw'[w].queries_executed = sw[w].queries_executed
                /\ trackers' = trackers
                /\ sw'[w].pc = "loop"
                /\ ~sw'[w].crashed]_vars

\* C4's case: a worker is in a search call that it started after an
\* earlier call of its had failed
C4_Witness ==
    \E w \in SearchWorkerIds :
        sw[w].errors = 1 /\ sw[w].iters = 2 /\ sw[w].pc = "call"

\* C5: the loop body is entered only on a loop check that sees running set
\* and the deadline not reached, and after stop() or the deadline at most
\* one more call of a worker completes (successfully or not).
C5_CooperativeStop ==
    /\ [](\A w \in SearchWorkerIds : sw[w].late <= 1)
    /\ [][\A w \in SearchWorkerIds :
            (sw'[w].pc = "body" /\ sw[w].pc # "body") =>
                (sw[w].pc = "loop" /\ sw[w].running /\ now < sw[w].end_time)]_vars

\* C5's case: stop() was called before the deadline and one call has
\* completed since
C5_Witness ==
    \E w \in SearchWorkerIds :
        /\ ~sw[w].running /\ now < sw[w].end_time
        /\ sw[w].late = 1 /\ sw[w].pc = "loop"

\* C6: the latency count of the search-only summary equals its
\* total_queries.
C6_LatencyCountEqualsTotal ==
    search_only_stats # None =>
        search_only_stats.latency.count = search_only_stats.total_queries

\* C8: with duration > 0, after the search-only phase has ended,
\* run_benchmark runs the concurrent phase up to its summary.
C8_ConcurrentPhaseRuns ==
    ( /\ params.duration > 0
      /\ OrchTerminated
      /\ params.search_only_duration > 0 => SearchOnlyCompleted ) =>
        (exc = "none" /\ "concurrent_results" \in log)

\* C9: the persisted report contains the summary, with its error count, of
\* exactly the phases that completed: when run_benchmark ends after a
\* completed search-only phase, the report is on disk and holds that summary.
C9_ReportReflectsCompletedPhases ==
    (OrchTerminated /\ SearchOnlyCompleted) =>
        /\ report # None
        /\ report.results.search_only = search_only_stats
        /\ "errors" \in DOMAIN report.results.search_only

\* C10: once a join has timed out on a live worker and the run goes on, a
\* warning has been printed or the phase statistics are flagged incomplete.
C10_JoinTimeoutReported ==
    (joinTimedOut # {} /\ pc \in { "phase3b", "c_setup", "save", "done", "raised" }) =>
        \/ "join_timeout_warning" \in log
        \/ (search_only_stats # None /\ "incomplete" \in DOMAIN search_only_stats)

\* C11: once a worker's connect has failed the run is aborted: no report
\* file is written, and run_benchmark does not return normally.
C11_ConnectFailureAborts ==
    (\E w \in SearchWorkerIds : sw[w].crashed) =>
        (report = None /\ pc # "done")

\* the SearchWorker objects constructed so far
SearchWorkersBuilt == { w \in AllSearchWorkerKeys : sw[w].pc # "none" }

\* do the SearchWorker objects v and w belong to the same phase
SamePhase(v, w) == (v \in SearchWorkerIds) = (w \in SearchWorkerIds)

SwConnected(w) ==
    sw[w].pc \in { "loop", "body", "call", "record", "count", "disconnect" }

\* an InsertWorker thread that has connected and has not ended
IwConnected(w) == iw[w].pc \in { "loop", "body", "insert", "disconnect" }

InsertWorkersBuilt == { w \in AllInsertWorkerIds : iw[w].pc # "none" }

\* the indices [start_idx, end_idx) assigned to insert worker w
AssignedRange(w) == { x \in 0 .. MaxVectors + 1 :
                        iw[w].start_idx <= x /\ x < iw[w].end_idx }

\* all insert workers of the phase have been constructed
AllInsertWorkersBuilt == hpc \in { "start", "monitor", "stop", "join" }

\* C1: the ranges assigned to insert workers 0..W-1 are pairwise disjoint,
\* their union is exactly [initial, total), workers 0..W-2 get
\* floor((total - initial) / W) indices each and the last one the rest.
C1_PartitionExact ==
    AllInsertWorkersBuilt =>
        LET W == params.num_insert_workers
            total == reader.num_vectors
            per == (total - initial_vectors) \div W
        IN  /\ InsertWorkersBuilt = 0 .. (W - 1)
            /\ \A v, w \in InsertWorkersBuilt :
                  v # w => AssignedRange(v) \cap AssignedRange(w) = {}
            /\ UNION { AssignedRange(w) : w \in InsertWorkersBuilt } =
                  { x \in 0 .. MaxVectors + 1 : initial_vectors <= x /\ x < total }
            /\ \A w \in InsertWorkersBuilt : iw[w].start_idx <= iw[w].end_idx
            /\ \A w \in 0 .. (W - 2) : iw[w].end_idx - iw[w].start_idx = per
            /\ iw[W - 1].end_idx - iw[W - 1].start_idx =
                  per + ((total - initial_vectors) % W)

\* C1's case: two workers and a remainder for the last one
C1_Witness ==
    /\ AllInsertWorkersBuilt
    /\ params.num_insert_workers = 2
    /\ (reader.num_vectors - initial_vectors) % 2 = 1
    /\ reader.num_vectors - initial_vectors > 2

C7_RangeConsumedWithoutError ==
    \A w \in InsertWorkersBuilt :
        ( /\ iw[w].pc = "ended"
          /\ iw[w].exc # "ConnectError"
          /\ iw[w].current_idx = iw[w].end_idx ) =>
            /\ iw[w].vectors_inserted = iw[w].end_idx - iw[w].start_idx
            /\ iw[w].errors = 0
            /\ iw[w].exc = "none"

(* ------------------- claims on the LatencyTracker --------------------- *)
\* the last method called on the tracker
LastCall == IF calls = << >> THEN "none" ELSE calls[Len(calls)]

\* C12: get_stats() on a tracker with zero samples returns the empty
\* result and does not raise, whatever calls of record and reset went
\* before; and no get_stats() call raises.
C12_EmptyStatsNeverRaise ==
    LastCall = "get_stats" =>
        /\ "raised" \notin DOMAIN stats
        /\ \A t \in DOMAIN trackers :
              trackers[t] = << >> => stats = EmptyStats

\* C12's case: samples were recorded, reset() was called, then get_stats()
C12_Witness ==
    /\ calls = << "record", "reset", "get_stats" >>
    /\ stats = EmptyStats

\* C13: when the search-only phase has got past its statistics with zero
\* merged samples, run_benchmark has not raised there and has built the
\* phase summary with an empty latency result.
C13_ZeroSamplesSummarised ==
    ( /\ params.search_only_duration > 0
      /\ pc \in { "phase3b", "c_setup", "save", "done", "raised" }
      /\ latencies = << >> ) =>
        /\ exc # "StatisticsError"
        /\ search_only_stats # None
        /\ search_only_stats.latency = EmptyStats

\* the order the claim demands of a statistics dictionary
StatsOrdered(st) ==
    /\ st.min_ms <= st.p50_ms
    /\ st.p50_ms <= st.p80_ms
    /\ st.p80_ms <= st.p90_ms
    /\ st.p90_ms <= st.p95_ms
    /\ st.p95_ms <= st.p99_ms
    /\ st.p99_ms <= st.p99_9_ms
    /\ st.p99_9_ms <= st.max_ms
    /\ st.min_ms * st.mean_ms.den <= st.mean_ms.num
    /\ st.mean_ms.num <= st.max_ms * st.mean_ms.den

\* C14: the statistics of a non-empty list of samples, from get_stats()
\* and from the orchestrator's computation on the merged list alike, have
\* count = the number of samples, min <= p50 <= p80 <= p90 <= p95 <= p99 <=
\* p99.9 <= max and min <= mean <= max.
C14_PercentilesOrdered ==
    \A t \in DOMAIN trackers :
        (LastCall \in { "get_stats", "phase_stats" } /\ trackers[t] # << >>) =>
            /\ stats.count = Len(trackers[t])
            /\ StatsOrdered(stats)

\* C14's case: get_stats() on three samples recorded out of order, with
\* the percentiles strictly between min and max
C14_Witness ==
    /\ LastCall = "get_stats"
    /\ trackers[0] = << 2000, 0, 1000 >>
    /\ stats.min_ms < stats.p50_ms
    /\ stats.p50_ms < stats.p80_ms
    /\ stats.p99_9_ms < stats.max_ms

(* --------------------- claims on calculate_recall --------------------- *)
\* C15: for one query, whenever calculate_recall returns a value it is
\* |top-k result ids /\ top-k ground-truth ids| / min(k, |ground-truth ids|),
\* and it lies in [0, 1].
C15_RecallIsTopKOverlap ==
    (recall # None /\ "raised" \notin DOMAIN recall) =>
        LET topk_result == Ids(Prefix(params.results[1], params.k))
            topk_truth == Ids(Prefix(params.ground_truth[1], params.k))
        IN  /\ recall.num = Cardinality(topk_result \cap topk_truth)
            /\ recall.den = Min(params.k, Cardinality(topk_truth))
            /\ 0 <= recall.num /\ recall.num <= recall.den

\* C16: calculate_recall never divides by zero: it returns a value for
\* every ground-truth row, the empty one included, and with fewer than k
\* ground-truth ids the denominator is their number.
C16_RecallNeverDividesByZero ==
    recall # None =>
        /\ "raised" \notin DOMAIN recall
        /\ recall.den = Min(params.k,
                            Cardinality(Ids(Prefix(params.ground_truth[1],
                                                   params.k))))

(* ----------------- claims on the InsertWorker's loop ------------------ *)
\* C19: a failed insert adds exactly 1 to errors, leaves current_idx and
\* vectors_inserted as they are and leads back to the loop condition with
\* the thread alive; the cursor moves only when the backend accepts a
\* batch, and every batch starts at the cursor, so the next attempt is at
\* the same cursor.
C19_FailedInsertRetried ==
    /\ [](\A w \in AllInsertWorkerIds :
            iw[w].pc = "insert" =>
                (iw[w].data # << >> /\ iw[w].data[1] = iw[w].current_idx))
    /\ [][\A w \in AllInsertWorkerIds :
            /\ (iw[w].pc = "insert" /\ iw'[w].pc # "insert"
                                    /\ inserted' = inserted) =>
                  /\ iw'[w].errors = iw[w].errors + 1
                  /\ iw'[w].current_idx = iw[w].current_idx
                  /\ iw'[w].vectors_inserted = iw[w].vectors_inserted
                  /\ iw'[w].pc = "loop"
                  /\ iw'[w].exc = "none"
            /\ (iw[w].pc # "none" /\ inserted' = inserted) =>
                  iw'[w].current_idx = iw[w].current_idx]_vars

\* C19's case: after a failed insert a worker is at its insert call again,
\* with a batch at the same cursor
C19_Witness ==
    \E w \in AllInsertWorkerIds :
        /\ iw[w].pc = "insert" /\ iw[w].errors = 1 /\ iw[w].iters = 2
        /\ iw[w].data[1] = iw[w].current_idx

\* C20 as stated: every batch a worker has read for its insert call has
\* size min(batch_size, end_idx - current_idx, num_vectors - current_idx).
C20_BatchSizeIsMin ==
    \A w \in AllInsertWorkerIds :
        iw[w].pc = "insert" =>
            Len(iw[w].data) =
                Min(iw[w].batch_size,
                    Min(iw[w].end_idx - iw[w].current_idx,
                        reader.num_vectors - iw[w].current_idx))

\* C20 amended: the worker asks the reader for min(batch_size, end_idx -
\* current_idx, num_vectors - current_idx) vectors, and the batch it has
\* for its insert call holds what the reader returned: at least one vector
\* and at most that many, every index below end_idx and below
\* reader.num_vectors.
C20_BatchWithinMin ==
    \A w \in AllInsertWorkerIds :
        iw[w].pc = "insert" =>
            /\ iw[w].batch =
                  Min(iw[w].batch_size,
                      Min(iw[w].end_idx - iw[w].current_idx,
                          reader.num_vectors - iw[w].current_idx))
            /\ 1 <= Len(iw[w].data)
            /\ Len(iw[w].data) <= iw[w].batch
            /\ \A k \in 1 .. Len(iw[w].data) :
                  /\ iw[w].data[k] < iw[w].end_idx
                  /\ iw[w].data[k] < reader.num_vectors

\* C20's case: the reader returned fewer vectors than were asked for
C20_Witness ==
    \E w \in AllInsertWorkerIds :
        /\ iw[w].pc = "insert"
        /\ iw[w].batch = 2 /\ Len(iw[w].data) = 1

\* C21: when nothing remains for the worker or the reader returns no
\* vector, the worker leaves its loop in that step, whatever running and
\* the deadline are: nothing is submitted and errors is as it was; and no
\* empty batch is ever at the insert call.
C21_EndOfDataLeavesLoop ==
    /\ [](\A w \in AllInsertWorkerIds :
            iw[w].pc = "insert" => iw[w].data # << >>)
    /\ [][\A w \in AllInsertWorkerIds :
            (iw[w].pc = "body" /\ iw'[w].pc \notin { "body", "insert" }) =>
                /\ iw'[w].pc = "disconnect"
                /\ iw'[w].errors = iw[w].errors
                /\ iw'[w].current_idx = iw[w].current_idx
                /\ iw'[w].vectors_inserted = iw[w].vectors_inserted
                /\ inserted' = inserted]_vars

\* C21's case: a worker is past its loop although running is set, the
\* deadline is not reached and its range is not consumed
C21_Witness ==
    \E w \in AllInsertWorkerIds :
        /\ iw[w].pc = "disconnect"
        /\ iw[w].running /\ now < iw[w].end_time
        /\ iw[w].current_idx < iw[w].end_idx
        /\ iw[w].errors = 0

\* has the worker's run() got past its set-up and not ended yet
SwInLoop(w) ==
    sw[w].pc \in { "loop", "body", "call", "record", "count", "disconnect" }

C23_StopAllThenJoinEach ==
    /\ [](pc \in { "so_merge", "so_join" } =>
            \A w \in SearchWorkerIds : ~sw[w].running)
    /\ [][(pc # "so_join" /\ pc' = "so_join") =>
            (i' = i /\ i < NumSearchWorkers /\ wake' = now + JoinTimeout)]_vars
    /\ [][pc = "so_join" =>
            /\ wake' = wake
            /\ i' \in { i, i + 1 }
            /\ (i' = i + 1) <=> (pc' # "so_join")
            /\ (i' = i + 1) => (~SwAlive(i) \/ now >= wake)]_vars
    /\ [][pc = "so_merge" => i' = i]_vars

\* C23's case: the join of the first worker has run into its timeout and
\* the last worker, already stopped, is being joined
C23_Witness ==
    /\ pc = "so_join"
    /\ i = NumSearchWorkers - 1
    /\ 0 \in joinTimedOut
    /\ \A w \in SearchWorkerIds : ~sw[w].running

\* C24: a worker blocked in its database call does not keep run_benchmark
\* from its report: whenever the orchestrator has come to its end while a
\* worker is still inside a search call, it has ended by writing the
\* report, not in an exception.
C24_BlockedWorkerStillReports ==
    (OrchTerminated /\ \E w \in SearchWorkerIds : sw[w].pc = "call") =>
        (pc = "done" /\ report # None)

\* is the orchestrator inside its progress-polling loop (lines 313-320)
OrchPolling == pc \in { "so_sleep", "so_monitor" }

\* C25: a step of the orchestrator's polling loop (the test of the while,
\* the end of the sleep with the reading and printing of the counters)
\* leaves every worker object, every tracker's samples and every
\* connection as it was, and while the orchestrator polls a worker inside
\* its search call is free to come back from it: nothing the orchestrator
\* holds stands in its way.
C25_PollingReadsOnly ==
    /\ [][(OrchPolling /\ pc' # pc) =>
            /\ sw' = sw
            /\ trackers' = trackers
            /\ connections' = connections
            /\ iw' = iw]_vars
    /\ [](OrchPolling =>
            \A w \in SearchWorkerIds :
                sw[w].pc = "call" => ENABLED SwSearchReturn(w))

\* C25's case: the orchestrator has printed a progress line and is back at
\* the test of its loop while a worker that has completed a search is
\* inside its next call
C25_Witness ==
    /\ pc = "so_monitor"
    /\ "progress" \in log
    /\ \E w \in SearchWorkerIds :
          sw[w].pc = "call" /\ sw[w].queries_executed > 0

\* C26: the search-only summary is built after every worker was stopped
\* and joined; its total is the sum of the workers' counters as they are
\* then, its duration is the time elapsed since start_time, which was
\* taken when the workers were built and none was started, and is at
\* least the configured duration; the achieved rate is that total over
\* that elapsed time.
C26_RateOverElapsedTime ==
    /\ [](search_only_stats # None =>
            /\ search_only_stats.duration_seconds >= params.search_only_duration
            /\ search_only_stats.duration_seconds > 0
            /\ search_only_stats.actual_qps =
                  [ num |-> search_only_stats.total_queries,
                    den |-> search_only_stats.duration_seconds ])
    /\ [][search_only_stats' # search_only_stats =>
            /\ pc = "so_merge" /\ i = NumSearchWorkers
            /\ \A w \in SearchWorkerIds : ~sw[w].running
            /\ search_only_stats'.total_queries = TotalSearches
            /\ search_only_stats'.duration_seconds = now - start_time]_vars
    /\ [][start_time' # start_time =>
            /\ start_time' = now
            /\ \A w \in SearchWorkerIds : sw'[w].pc = "created"]_vars

\* C26's case: a summary whose elapsed time is longer than the configured
\* duration, with completed searches to divide
C26_Witness ==
    /\ search_only_stats # None
    /\ search_only_stats.duration_seconds > params.search_only_duration
    /\ search_only_stats.total_queries > 0

\* C27: a SearchWorker walks the query set cyclically over its
\* iterations, failed ones included: the search of its j-th iteration
\* (counting from 0) is issued for queries[j mod N], an index within
\* 0 .. N-1.
C27_QueriesWalkedCyclically ==
    \A w \in SearchWorkerIds :
        sw[w].pc = "call" =>
            /\ sw[w].query \in 0 .. (NumQueries - 1)
            /\ sw[w].query = (sw[w].iters - 1) % NumQueries

\* C28: pacing is per iteration: whenever an InsertWorker with a target
\* rate above 0 is back at the test of its loop it has slept once for
\* each iteration it has gone through, whether the insert succeeded or
\* failed, and a worker with target rate 0 has never slept.
C28_SleepsEveryIteration ==
    \A w \in AllInsertWorkerIds :
        iw[w].pc = "loop" =>
            iw[w].sleeps = IF iw[w].target_qps > 0 THEN iw[w].iters ELSE 0

\* C29: an InsertWorker has printed a message for each of its first four
\* errors and for no later one, however many there are, while every
\* failed insert adds 1 to errors.
C29_ErrorLogBounded ==
    /\ [](\A w \in AllInsertWorkerIds :
            /\ iw[w].logged = Min(iw[w].errors, 4)
            /\ iw[w].logged > 0 => "insert_error" \in log)
    /\ [][\A w \in AllInsertWorkerIds :
            (iw[w].pc = "insert" /\ iw'[w].pc # "insert"
               /\ inserted' = inserted) =>
                (iw'[w].pc = "loop" /\ iw'[w].errors = iw[w].errors + 1)]_vars

\* C29's case: a worker has failed more often than it has printed
C29_Witness ==
    \E w \in AllInsertWorkerIds :
        iw[w].errors >= 5 /\ iw[w].logged = 4

SwSamples(w) == Len(trackers[sw[w].latency_tracker])

\* C31: a search-only worker owns its tracker and nothing resets it; the
\* tracker holds as many samples as the worker has counted queries, or
\* one more (between the record and the count of one iteration), and
\* exactly as many once the thread has ended; the tracker gets a sample
\* only in the record step that follows a call that returned, one at a
\* time, and never in the step of a call that raised.
C31_SamplesMatchExecuted ==
    /\ [](\A w \in SearchWorkerIds :
            sw[w].pc # "none" =>
                /\ SwSamples(w) - sw[w].queries_executed \in { 0, 1 }
                /\ (SwSamples(w) = sw[w].queries_executed + 1)
                      <=> (sw[w].pc = "count")
                /\ sw[w].pc = "ended" =>
                      SwSamples(w) = sw[w].queries_executed)
    /\ [][\A w \in SearchWorkerIds :
            (sw[w].pc # "none" /\ trackers'[w] # trackers[w]) =>
                /\ sw[w].pc = "record" /\ sw'[w].pc = "count"
                /\ Len(trackers'[w]) = Len(trackers[w]) + 1
                /\ sw'[w].errors = sw[w].errors]_vars
    /\ [][\A w \in SearchWorkerIds :
            sw'[w].errors # sw[w].errors =>
                (sw[w].pc = "call" /\ trackers' = trackers
                   /\ sw'[w].queries_executed = sw[w].queries_executed)]_vars

\* C31's case: a worker whose first search raised has recorded the
\* latency of its second and has not counted it yet
C31_Witness ==
    \E w \in SearchWorkerIds :
        /\ sw[w].pc = "count" /\ sw[w].errors = 1
        /\ SwSamples(w) = 1 /\ sw[w].queries_executed = 0

\* C32: an InsertWorker that got into its loop and whose thread has ended
\* (range consumed, end of data, deadline or stop()) has ended without
\* an exception and with its own alias disconnected.
C32_InsertWorkerEndsDisconnected ==
    \A w \in AllInsertWorkerIds :
        (iw[w].pc = "ended" /\ iw[w].exc # "ConnectError") =>
            /\ iw[w].exc = "none"
            /\ IwAlias(w) \notin connections

====
